---- MODULE Spec2Model ----
(***************************************************************************)
(* git_cmd_tool: GitCloneControl (one repository -> clone relation),       *)
(* GitCloneManager (an ordered list of controls, batch update, validate,   *)
(* dict load/export) and the git_cmd wrapper functions they call.          *)
(*                                                                         *)
(* A Python str is a finite sequence of tokens: a path is the sequence of  *)
(* its segments, a URL starts with its scheme token, "" is <<>>.           *)
(* A Python call ends in one of "True", "False" (returned) or "raise".     *)
(***************************************************************************)
EXTENDS Naturals, Sequences, FiniteSets

VARIABLES
    fs,        \* the filesystem: path -> node
    controls,  \* GitCloneManager.controls
    batch,     \* the running GitCloneManager.update call: its locals and its position
    last       \* the last completed call: its arguments, its outcome, the state before it

vars == <<fs, controls, batch, last>>

(***************************************************************************)
(* Bounds                                                                  *)
(***************************************************************************)
MaxControls == 3     \* manager list length in the configuration specification
MaxBatch == 3        \* manager list length in the batch specification
MaxEntries == 2      \* entries of a record handed to load_from_dict

(***************************************************************************)
(* Strings and paths                                                       *)
(***************************************************************************)
EmptyStr == <<>>

UrlPrefixes == {"http://", "https://", "git://", "ssh://", "git@"}

SrvPath == <<"srv">>
RepoPath == <<"srv", "repo">>
WorkPath == <<"work">>
RemoteUrl == <<"https://", "host", "repo.git">>
SshUrl == <<"git@", "host", "repo.git">>

\* The paths the modelled filesystem holds; the root above them always exists.
FsPaths == {SrvPath, RepoPath, WorkPath}

Parent(p) == SubSeq(p, 1, Len(p) - 1)

IsPrefix(p, q) == Len(p) <= Len(q) /\ SubSeq(q, 1, Len(p)) = p

\* p and every path of the filesystem below it
Subtree(p) == {q \in FsPaths : IsPrefix(p, q)}

\* p and every path of the filesystem above it
Ancestors(p) == {q \in FsPaths : IsPrefix(q, p)}

Absent == [kind |-> "absent", entries |-> {}]
RegularFile == [kind |-> "file", entries |-> {}]
Dir(es) == [kind |-> "dir", entries |-> es]

EntryNames == {".git", "HEAD", "data"}

Nodes == {Absent, RegularFile} \cup {Dir(es) : es \in SUBSET EntryNames}

\* A node exists only inside an existing directory.
WellFormed(f) ==
    \A p \in FsPaths :
        (f[p].kind # "absent" /\ Parent(p) \in FsPaths) => f[Parent(p)].kind = "dir"

AllFs == {f \in [FsPaths -> Nodes] : WellFormed(f)}

\* Path.exists()
PathExists(f, p) == p \in FsPaths /\ f[p].kind # "absent"

\* (Path(p) / name).exists()
ChildExists(f, p, name) == p \in FsPaths /\ f[p].kind = "dir" /\ name \in f[p].entries

\* Path.mkdir(parents=True, exist_ok=True) fails when a file is in the way
MkdirOk(f, p) == \A q \in Ancestors(p) : f[q].kind # "file"

Mkdirs(f, p) ==
    [q \in FsPaths |->
        IF q \in Ancestors(p) /\ f[q].kind = "absent" THEN Dir({}) ELSE f[q]]

\* shutil.rmtree removes a directory tree and raises on anything else
RmtreeOk(f, p) == p \in FsPaths /\ f[p].kind = "dir"

Rmtree(f, p) == [q \in FsPaths |-> IF q \in Subtree(p) THEN Absent ELSE f[q]]

(***************************************************************************)
(* git_cmd.py                                                              *)
(***************************************************************************)
is_local_path(repo_path) ==
    ~(Len(repo_path) > 0 /\ repo_path[1] \in UrlPrefixes)

is_git_repository(f, path) ==
    IF ChildExists(f, path, ".git") THEN TRUE
    ELSE IF ChildExists(f, path, "HEAD") THEN TRUE
    ELSE FALSE

\* One invocation of an external operation, with the node found at its path.
Event(op, src, path, pre) == [op |-> op, src |-> src, path |-> path, pre |-> pre]

\* The outcome of a call: the filesystem it leaves, how it ended, what it invoked.
Outcome(f, res, log) == [fs |-> f, res |-> res, log |-> log]

\* `git init --bare path` (check=True): on success the path holds a HEAD file.
GitInitBare(f, path, toolOk) ==
    IF toolOk /\ path \in FsPaths /\ f[path].kind = "dir"
    THEN Outcome([f EXCEPT ![path] = Dir(f[path].entries \cup {"HEAD"})], "True",
                 <<Event("init", EmptyStr, path, f[path])>>)
    ELSE Outcome(f, "raise", <<Event("init", EmptyStr, path, f[path])>>)

create_bare_repository(f, repo_path, toolOk) ==
    IF ~PathExists(f, repo_path) /\ ~MkdirOk(f, repo_path)
    THEN Outcome(f, "raise", <<>>)
    ELSE LET f1 == IF ~PathExists(f, repo_path) THEN Mkdirs(f, repo_path) ELSE f
         IN  IF ChildExists(f1, repo_path, ".git") \/ ChildExists(f1, repo_path, "HEAD")
             THEN Outcome(f1, "True", <<>>)
             ELSE GitInitBare(f1, repo_path, toolOk)

\* `git clone repo_url clone_path` (check=True): it succeeds only from a source
\* that is remote or a repository, into a path that is absent or an empty
\* directory, and leaves a working copy (a .git entry) there.
GitCloneTool(f, repo_url, clone_path, toolOk) ==
    LET ev == Event("clone", repo_url, clone_path, f[clone_path])
        srcOk == ~is_local_path(repo_url) \/ is_git_repository(f, repo_url)
        dstOk == f[clone_path] \in {Absent, Dir({})}
    IN  IF toolOk /\ srcOk /\ dstOk
        THEN Outcome([f EXCEPT ![clone_path] = Dir({".git"})], "True", <<ev>>)
        ELSE Outcome(f, "raise", <<ev>>)

\* git_clone from the point where the parent directory is created
CloneInto(f, repo_url, clone_path, toolOk, log) ==
    IF ~MkdirOk(f, Parent(clone_path))
    THEN Outcome(f, "raise", log)
    ELSE LET r == GitCloneTool(Mkdirs(f, Parent(clone_path)), repo_url, clone_path, toolOk)
         IN  Outcome(r.fs, r.res, log \o r.log)

\* Mutant: the force flag is not consulted, an existing destination is always deleted.
git_clone_ForceIgnored(f, repo_url, clone_path, force, toolOk) ==
    IF PathExists(f, clone_path)
    THEN IF RmtreeOk(f, clone_path)
         THEN CloneInto(Rmtree(f, clone_path), repo_url, clone_path, toolOk,
                        <<Event("rmtree", EmptyStr, clone_path, f[clone_path])>>)
         ELSE Outcome(f, "raise", <<>>)
    ELSE CloneInto(f, repo_url, clone_path, toolOk, <<>>)

\* Mutant: with force the existing destination is not deleted before the clone.
git_clone_NoRmtree(f, repo_url, clone_path, force, toolOk) ==
    IF PathExists(f, clone_path)
    THEN IF force
         THEN CloneInto(f, repo_url, clone_path, toolOk, <<>>)
         ELSE IF ChildExists(f, clone_path, ".git")
              THEN Outcome(f, "True", <<>>)
              ELSE Outcome(f, "False", <<>>)
    ELSE CloneInto(f, repo_url, clone_path, toolOk, <<>>)

git_clone(f, repo_url, clone_path, force, toolOk) ==
    IF PathExists(f, clone_path)
    THEN IF force
         THEN IF RmtreeOk(f, clone_path)
              THEN CloneInto(Rmtree(f, clone_path), repo_url, clone_path, toolOk,
                             <<Event("rmtree", EmptyStr, clone_path, f[clone_path])>>)
              ELSE Outcome(f, "raise", <<>>)
         ELSE IF ChildExists(f, clone_path, ".git")
              THEN Outcome(f, "True", <<>>)
              ELSE Outcome(f, "False", <<>>)
    ELSE CloneInto(f, repo_url, clone_path, toolOk, <<>>)

(***************************************************************************)
(* git_clone_control.py                                                    *)
(***************************************************************************)
GitCloneControl(name, repo_path, clone_path) ==
    [name |-> name, repo_path |-> repo_path, clone_path |-> clone_path,
     is_local |-> is_local_path(repo_path)]

repository_exists(c, f) ==
    IF c.is_local THEN is_git_repository(f, c.repo_path) ELSE TRUE

clone_exists(c, f) == is_git_repository(f, c.clone_path)

ensure_repository(c, f, initOk) ==
    IF ~c.is_local THEN Outcome(f, "True", <<>>)
    ELSE IF repository_exists(c, f) THEN Outcome(f, "True", <<>>)
    ELSE create_bare_repository(f, c.repo_path, initOk)

ensure_clone(c, f, force, cloneOk) ==
    IF clone_exists(c, f) /\ ~force THEN Outcome(f, "True", <<>>)
    ELSE git_clone(f, c.repo_path, c.clone_path, force, cloneOk)

\* Mutant: the result of ensure_repository is not checked before the clone step.
ControlUpdate_NoShortCircuit(c, f, force, initOk, cloneOk) ==
    LET r1 == ensure_repository(c, f, initOk)
        r2 == ensure_clone(c, r1.fs, force, cloneOk)
    IN  Outcome(r2.fs, r2.res, r1.log \o r2.log)

\* Mutant: the clone step is always forced.
ControlUpdate_AlwaysForce(c, f, force, initOk, cloneOk) ==
    LET r1 == ensure_repository(c, f, initOk)
    IN  IF r1.res # "True" THEN r1
        ELSE LET r2 == ensure_clone(c, r1.fs, TRUE, cloneOk)
             IN  Outcome(r2.fs, r2.res, r1.log \o r2.log)

\* GitCloneControl.update
ControlUpdate(c, f, force, initOk, cloneOk) ==
    LET r1 == ensure_repository(c, f, initOk)
    IN  IF r1.res # "True" THEN r1
        ELSE LET r2 == ensure_clone(c, r1.fs, force, cloneOk)
             IN  Outcome(r2.fs, r2.res, r1.log \o r2.log)

(***************************************************************************)
(* Calls on one control                                                    *)
(***************************************************************************)
\* The record of a completed call: its arguments (idx: the control's place in
\* the list), the tools' answers, how it ended, what it invoked, the
\* filesystem and (for a load) the list it started from, what it returned, and
\* afterOk: the call before it was an update of the same control that returned True.
Call(op, idx, force, initOk, cloneOk, res, log, fs0, before, out) ==
    [op |-> op, idx |-> idx, force |-> force, initOk |-> initOk, cloneOk |-> cloneOk,
     res |-> res, log |-> log, fs0 |-> fs0, before |-> before, out |-> out,
     arg |-> <<>>,
     afterOk |-> last.op = "update" /\ last.idx = idx /\ last.res = "True"]

NoCall ==
    [op |-> "none", idx |-> 0, force |-> FALSE, initOk |-> FALSE, cloneOk |-> FALSE,
     res |-> "True", log |-> <<>>, fs0 |-> fs, before |-> <<>>, out |-> <<>>,
     arg |-> <<>>, afterOk |-> FALSE]

IdleBatch ==
    [status |-> "idle", force |-> FALSE, stop |-> FALSE, attempted |-> <<>>,
     success_count |-> 0, error_count |-> 0, errors |-> <<>>, ret |-> FALSE]

\* controls[k].ensure_repository()
CallEnsureRepository(k) ==
    /\ batch.status = "idle"
    /\ \E initOk \in BOOLEAN :
         LET r == ensure_repository(controls[k], fs, initOk)
         IN  /\ fs' = r.fs
             /\ last' = Call("ensure_repository", k, FALSE, initOk, FALSE, r.res, r.log,
                             fs, <<>>, <<>>)
    /\ UNCHANGED <<controls, batch>>

\* controls[k].ensure_clone(force)
CallEnsureClone(k, force) ==
    /\ batch.status = "idle"
    /\ \E cloneOk \in BOOLEAN :
         LET r == ensure_clone(controls[k], fs, force, cloneOk)
         IN  /\ fs' = r.fs
             /\ last' = Call("ensure_clone", k, force, FALSE, cloneOk, r.res, r.log,
                             fs, <<>>, <<>>)
    /\ UNCHANGED <<controls, batch>>

\* controls[k].update(force)
CallUpdate(k, force) ==
    /\ batch.status = "idle"
    /\ \E initOk \in BOOLEAN, cloneOk \in BOOLEAN :
         LET r == ControlUpdate(controls[k], fs, force, initOk, cloneOk)
         IN  /\ fs' = r.fs
             /\ last' = Call("update", k, force, initOk, cloneOk, r.res, r.log,
                             fs, <<>>, <<>>)
    /\ UNCHANGED <<controls, batch>>

\* The controls of the single-control specification.
CtlControls ==
    {GitCloneControl(<<"a">>, rp, cp) :
        rp \in {RepoPath, RemoteUrl}, cp \in FsPaths}

InitCtl ==
    /\ fs \in AllFs
    /\ controls \in {<<c>> : c \in CtlControls}
    /\ batch = IdleBatch
    /\ last = NoCall

NextCtl ==
    \/ \E k \in DOMAIN controls : CallEnsureRepository(k)
    \/ \E k \in DOMAIN controls, force \in BOOLEAN : CallEnsureClone(k, force)
    \/ \E k \in DOMAIN controls, force \in BOOLEAN : CallUpdate(k, force)

\* One control on every filesystem: its three public operations, in any order.
SpecCtl == InitCtl /\ [][NextCtl]_vars

(***************************************************************************)
(* Claims on one control (SpecCtl)                                         *)
(***************************************************************************)
LastControl == controls[last.idx]

Markers == {".git", "HEAD"}

LogOps(log) == [i \in DOMAIN log |-> log[i].op]

\* C5: ensure_clone(force=False) on a destination that is a directory with
\* neither a .git nor a HEAD entry returns False, invokes neither a deletion
\* nor the clone tool, and leaves the whole filesystem as it was.
C5_PlainDirectoryLeftAlone ==
    (/\ last.op = "ensure_clone"
     /\ ~last.force
     /\ last.fs0[LastControl.clone_path].kind = "dir"
     /\ last.fs0[LastControl.clone_path].entries \cap Markers = {})
    => (last.res = "False" /\ last.log = <<>> /\ fs = last.fs0)

C5_Witness ==
    /\ last.op = "ensure_clone"
    /\ ~last.force
    /\ last.fs0[LastControl.clone_path] = Dir({"data"})
    /\ last.res = "False"

\* C6: ensure_clone(force=True) on a destination that is an existing directory
\* tree invokes exactly the deletion of that tree and then one clone with
\* (repo_path, clone_path), the clone finding the destination absent; and in
\* no call at all is the clone tool invoked on a destination still present.
C6_DeleteThenCloneOnce ==
    /\ (/\ last.op = "ensure_clone"
        /\ last.force
        /\ last.fs0[LastControl.clone_path].kind = "dir")
       => last.log = <<Event("rmtree", EmptyStr, LastControl.clone_path,
                             last.fs0[LastControl.clone_path]),
                       Event("clone", LastControl.repo_path, LastControl.clone_path,
                             Absent)>>
    /\ \A i \in DOMAIN last.log : last.log[i].op = "clone" => last.log[i].pre = Absent

C6_Witness ==
    /\ last.op = "ensure_clone"
    /\ last.force
    /\ last.fs0[LastControl.clone_path] = Dir({".git", "data"})
    /\ LogOps(last.log) = <<"rmtree", "clone">>
    /\ last.res = "True"
    /\ fs[LastControl.clone_path] = Dir({".git"})

\* C7: when the source step of update(force) does not succeed, update ends as
\* the source step did, invokes neither a deletion nor the clone tool, and an
\* existing destination is left as it was, for either value of force.
C7_SourceFailureStopsUpdate ==
    (/\ last.op = "update"
     /\ ensure_repository(LastControl, last.fs0, last.initOk).res # "True")
    => /\ last.res = ensure_repository(LastControl, last.fs0, last.initOk).res
       /\ \A i \in DOMAIN last.log : last.log[i].op \notin {"rmtree", "clone"}
       /\ PathExists(last.fs0, LastControl.clone_path)
            => fs[LastControl.clone_path] = last.fs0[LastControl.clone_path]

C7_Witness ==
    /\ last.op = "update"
    /\ last.force
    /\ last.cloneOk
    /\ LogOps(last.log) = <<"init">>
    /\ last.res = "raise"
    /\ is_git_repository(fs, LastControl.clone_path)

\* C9: an update(force=False) that directly follows an update of the same
\* control that returned True returns True, invokes no tool and no deletion,
\* and leaves the filesystem unchanged.
C9_UpdateIdempotent ==
    (last.op = "update" /\ ~last.force /\ last.afterOk)
    => (last.res = "True" /\ last.log = <<>> /\ fs = last.fs0)

C9_Witness ==
    /\ last.op = "update"
    /\ ~last.force
    /\ last.afterOk
    /\ LastControl.is_local
    /\ last.res = "True"
    /\ ChildExists(fs, LastControl.repo_path, "HEAD")
    /\ ChildExists(fs, LastControl.clone_path, ".git")

(***************************************************************************)
(* GitCloneManager.update: the batch loop, one item per step                *)
(***************************************************************************)
ErrorMsg(i, kind) == [idx |-> i, kind |-> kind]

\* Mutant: a control that returns False does not stop the batch, only a raise does.
Tally_FalseDoesNotStop(b, i, res) ==
    LET seen == [b EXCEPT !.attempted = Append(@, [idx |-> i, res |-> res])]
    IN  IF res = "True" THEN [seen EXCEPT !.success_count = @ + 1]
        ELSE IF res = "False"
        THEN [seen EXCEPT !.error_count = @ + 1,
                          !.errors = Append(@, ErrorMsg(i, "failed"))]
        ELSE [seen EXCEPT !.error_count = @ + 1,
                          !.errors = Append(@, ErrorMsg(i, "error")),
                          !.status = IF b.stop THEN "raised" ELSE b.status]

\* Mutant: the except branch re-raises whatever stop_on_error says.
Tally_AlwaysReraise(b, i, res) ==
    LET seen == [b EXCEPT !.attempted = Append(@, [idx |-> i, res |-> res])]
    IN  IF res = "True" THEN [seen EXCEPT !.success_count = @ + 1]
        ELSE IF res = "False"
        THEN [seen EXCEPT !.error_count = @ + 1,
                          !.errors = Append(@, ErrorMsg(i, "failed"))]
        ELSE [seen EXCEPT !.error_count = @ + 1,
                          !.errors = Append(@, ErrorMsg(i, "error")),
                          !.status = "raised"]

\* The loop body's bookkeeping for item i once control.update(force) has ended
\* with res: the else branch (returned False) and the except branch (raised).
\* The Exception raised in the else branch under stop_on_error is caught by
\* the except branch of the same iteration, which counts, records and re-raises.
Tally(b, i, res) ==
    LET seen == [b EXCEPT !.attempted = Append(@, [idx |-> i, res |-> res])]
        failed == [seen EXCEPT !.error_count = @ + 1,
                               !.errors = Append(@, ErrorMsg(i, "failed"))]
        Caught(x) == [x EXCEPT !.error_count = @ + 1,
                               !.errors = Append(@, ErrorMsg(i, "error")),
                               !.status = IF x.stop THEN "raised" ELSE x.status]
    IN  IF res = "True" THEN [seen EXCEPT !.success_count = @ + 1]
        ELSE IF res = "False" THEN (IF b.stop THEN Caught(failed) ELSE failed)
        ELSE Caught(seen)

\* manager.update(force, stop_on_error) up to the loop
BatchStart(force, stop) ==
    /\ batch.status # "running"
    /\ batch' = [IdleBatch EXCEPT !.force = force, !.stop = stop,
                    !.status = IF controls = <<>> THEN "returned" ELSE "running",
                    !.ret = (controls = <<>>)]
    /\ UNCHANGED <<fs, controls, last>>

\* one iteration of `for i, control in enumerate(self.controls, 1)`
BatchStep ==
    /\ batch.status = "running"
    /\ Len(batch.attempted) < Len(controls)
    /\ LET i == Len(batch.attempted) + 1
       IN  \E initOk \in BOOLEAN, cloneOk \in BOOLEAN :
             LET r == ControlUpdate(controls[i], fs, batch.force, initOk, cloneOk)
             IN  /\ fs' = r.fs
                 /\ batch' = Tally(batch, i, r.res)
    /\ UNCHANGED <<controls, last>>

\* after the loop: return error_count == 0
BatchReturn ==
    /\ batch.status = "running"
    /\ Len(batch.attempted) = Len(controls)
    /\ batch' = [batch EXCEPT !.status = "returned", !.ret = (batch.error_count = 0)]
    /\ UNCHANGED <<fs, controls, last>>

BatchControls ==
    {GitCloneControl(<<"a">>, RepoPath, WorkPath),
     GitCloneControl(<<"b">>, RemoteUrl, WorkPath),
     GitCloneControl(<<"c">>, RemoteUrl, SrvPath)}

SeqsUpTo(S, n) == UNION {[1..m -> S] : m \in 0..n}

BatchFs ==
    {f \in AllFs : \A p \in FsPaths : f[p] \in {Absent, Dir({}), Dir({".git"})}}

InitBatch ==
    /\ fs \in BatchFs
    /\ controls \in SeqsUpTo(BatchControls, MaxBatch)
    /\ batch = IdleBatch
    /\ last = NoCall

NextBatch ==
    \/ \E force \in BOOLEAN, stop \in BOOLEAN : BatchStart(force, stop)
    \/ BatchStep
    \/ BatchReturn

\* A manager holding any list of controls runs batch updates.
SpecBatch == InitBatch /\ [][NextBatch]_vars

(***************************************************************************)
(* Claims on the batch update (SpecBatch)                                  *)
(***************************************************************************)
Failed(k) == batch.attempted[k].res # "True"

InOrder == \A k \in DOMAIN batch.attempted : batch.attempted[k].idx = k

ErrorsFor(k) == {j \in DOMAIN batch.errors : batch.errors[j].idx = k}

\* C1: with stop_on_error=True the items are attempted in order, a failing item
\* (returned False or raised) is always the last one attempted, the call has
\* then ended by raising, and a call that returned saw no failure.
C1_StopOnErrorHalts ==
    (batch.status # "idle" /\ batch.stop)
    => /\ InOrder
       /\ \A k \in DOMAIN batch.attempted :
            Failed(k) => (k = Len(batch.attempted) /\ batch.status = "raised")
       /\ batch.status = "raised" => Failed(Len(batch.attempted))

C1_Witness ==
    /\ batch.stop
    /\ batch.status = "raised"
    /\ Len(controls) = 3
    /\ Len(batch.attempted) = 2
    /\ batch.attempted[1].res = "True"
    /\ batch.attempted[2].res = "False"

\* C2: with stop_on_error=False the call never raises, attempts the items in
\* list order, and when it returns it has attempted every item exactly once,
\* recorded exactly one error for each failing item and none for the others,
\* and returns True iff no item failed (True, with no attempt, on an empty list).
C2_ContinueOnError ==
    (batch.status # "idle" /\ ~batch.stop)
    => /\ batch.status # "raised"
       /\ InOrder
       /\ batch.status = "returned"
            => /\ Len(batch.attempted) = Len(controls)
               /\ \A k \in DOMAIN controls :
                    Cardinality(ErrorsFor(k)) = IF Failed(k) THEN 1 ELSE 0
               /\ batch.ret = (\A k \in DOMAIN controls : ~Failed(k))

C2_Witness ==
    /\ ~batch.stop
    /\ batch.status = "returned"
    /\ Len(controls) = 3
    /\ batch.attempted[1].res = "raise"
    /\ batch.attempted[2].res = "False"
    /\ batch.attempted[3].res = "True"
    /\ Len(batch.errors) = 2
    /\ ~batch.ret

\* C10: at every point of the batch loop, for both values of stop_on_error,
\* success_count + error_count is the number of items attempted so far and
\* the errors list holds error_count entries.
C10_TallyInvariant ==
    batch.status # "idle"
    => /\ batch.success_count + batch.error_count = Len(batch.attempted)
       /\ Len(batch.errors) = batch.error_count

(***************************************************************************)
(* GitCloneManager: the list, the dict conversions, validate               *)
(***************************************************************************)
\* A dict is a function on its keys; dict.get gives <<>> for None, <<v>> for v.
Get(d, key) == IF key \in DOMAIN d THEN <<d[key]>> ELSE <<>>

\* `not value` for None and for the empty str
Falsy(opt) == opt = <<>> \/ opt[1] = EmptyStr

\* Mutant: the two path values are written under each other's key.
control_to_dict_PathsSwapped(c) ==
    [name |-> c.name, repository_path |-> c.clone_path, target_path |-> c.repo_path]

\* GitCloneControl.to_dict
control_to_dict(c) ==
    [name |-> c.name, repository_path |-> c.repo_path, target_path |-> c.clone_path]

\* GitCloneControl.from_dict: the control, or a raised ValueError
from_dict(d) ==
    LET name == Get(d, "name")
        repo_path == Get(d, "repository_path")
        clone_path == Get(d, "target_path")
    IN  IF Falsy(name) \/ Falsy(repo_path) \/ Falsy(clone_path)
        THEN [res |-> "raise", control |-> <<>>]
        ELSE [res |-> "True",
              control |-> <<GitCloneControl(name[1], repo_path[1], clone_path[1])>>]

\* A JSON value under 'controls': a list of entries, or something else.
ListValue(items) == [is_list |-> TRUE, items |-> items]
NotAList == [is_list |-> FALSE, items |-> <<>>]

\* GitCloneManager.to_dict
to_dict(ctls) ==
    [controls |-> ListValue([i \in DOMAIN ctls |-> control_to_dict(ctls[i])])]

\* the loop of load_from_dict: each entry is appended as soon as it is built
RECURSIVE LoadLoop(_, _, _)
LoadLoop(ctls, items, loaded_count) ==
    IF items = <<>>
    THEN [controls |-> ctls, res |-> "True", count |-> loaded_count]
    ELSE LET r == from_dict(Head(items))
         IN  IF r.res = "raise"
             THEN [controls |-> ctls, res |-> "raise", count |-> loaded_count]
             ELSE LoadLoop(Append(ctls, r.control[1]), Tail(items), loaded_count + 1)

\* GitCloneManager.load_from_dict
load_from_dict(ctls, data) ==
    IF "controls" \notin DOMAIN data
    THEN [controls |-> ctls, res |-> "raise", count |-> 0]
    ELSE IF ~data["controls"].is_list
    THEN [controls |-> ctls, res |-> "raise", count |-> 0]
    ELSE LoadLoop(ctls, data["controls"].items, 0)

\* list.remove: the first equal element
RECURSIVE RemoveFirst(_, _)
RemoveFirst(ctls, c) ==
    IF ctls = <<>> THEN <<>>
    ELSE IF Head(ctls) = c THEN Tail(ctls)
    ELSE <<Head(ctls)>> \o RemoveFirst(Tail(ctls), c)

Contains(ctls, c) == \E i \in DOMAIN ctls : ctls[i] = c

\* Path(repo_path).parent.exists()
ParentExists(f, p) == Parent(p) \notin FsPaths \/ PathExists(f, Parent(p))

ValidationMsg(kind, path) == [kind |-> kind, path |-> path]

\* the inner loop of validate for control i, from place j on
RECURSIVE DuplicateMsgs(_, _, _)
DuplicateMsgs(ctls, i, j) ==
    IF j > Len(ctls) THEN <<>>
    ELSE (IF i # j /\ ctls[i].clone_path = ctls[j].clone_path
          THEN <<ValidationMsg("duplicate", ctls[i].clone_path)>>
          ELSE <<>>) \o DuplicateMsgs(ctls, i, j + 1)

ParentMsgs(ctls, i, f) ==
    IF ctls[i].is_local /\ ~repository_exists(ctls[i], f)
    THEN IF ~ParentExists(f, ctls[i].repo_path)
         THEN <<ValidationMsg("no_parent", ctls[i].repo_path)>>
         ELSE <<>>
    ELSE <<>>

\* the outer loop of validate, from place i on
RECURSIVE ValidateFrom(_, _, _)
ValidateFrom(ctls, i, f) ==
    IF i > Len(ctls) THEN <<>>
    ELSE DuplicateMsgs(ctls, i, 1) \o ParentMsgs(ctls, i, f) \o ValidateFrom(ctls, i + 1, f)

\* GitCloneManager.validate
validate(ctls, f) == ValidateFrom(ctls, 1, f)

CfgNames == {<<"a">>, EmptyStr}

\* The controls a caller constructs and hands to the manager.
CfgControls ==
    {GitCloneControl(n, rp, cp) :
        n \in CfgNames, rp \in {RepoPath, SshUrl}, cp \in {WorkPath, SrvPath}}

\* The entries of a record: exported controls, with a key missing, with an
\* empty value.
LoadEntries ==
    LET good == control_to_dict(GitCloneControl(<<"a">>, RepoPath, WorkPath))
        other == control_to_dict(GitCloneControl(<<"b">>, SshUrl, WorkPath))
        Without(d, key) == [x \in DOMAIN d \ {key} |-> d[x]]
    IN  {good, other,
         Without(good, "name"), Without(good, "repository_path"),
         Without(other, "target_path"), [other EXCEPT !.name = EmptyStr]}

LoadInputs ==
    {[controls |-> ListValue(items)] : items \in SeqsUpTo(LoadEntries, MaxEntries)}
    \cup {[controls |-> NotAList], [other |-> NotAList]}

appendControl(c) ==
    /\ Len(controls) < MaxControls
    /\ controls' = Append(controls, c)
    /\ last' = Call("append", 0, FALSE, FALSE, FALSE, "True", <<>>, fs, <<>>, <<>>)
    /\ UNCHANGED <<fs, batch>>

removeControl(c) ==
    /\ controls' = RemoveFirst(controls, c)
    /\ last' = Call("remove", 0, FALSE, FALSE, FALSE,
                    IF Contains(controls, c) THEN "True" ELSE "False", <<>>, fs, <<>>, <<>>)
    /\ UNCHANGED <<fs, batch>>

clearControls ==
    /\ controls' = <<>>
    /\ last' = Call("clear", 0, FALSE, FALSE, FALSE, "True", <<>>, fs, <<>>, <<>>)
    /\ UNCHANGED <<fs, batch>>

\* manager.load_from_dict(data)
LoadFromDict(data) ==
    /\ "controls" \in DOMAIN data => Len(controls) + Len(data["controls"].items) <= MaxControls
    /\ LET r == load_from_dict(controls, data)
       IN  /\ controls' = r.controls
           /\ last' = [Call("load", 0, FALSE, FALSE, FALSE, r.res, <<>>, fs, controls,
                            <<r.count>>) EXCEPT !.arg = <<data>>]
    /\ UNCHANGED <<fs, batch>>

\* GitCloneManager().load_from_dict(manager.to_dict()): out is the new manager's list
Reimport ==
    /\ LET r == load_from_dict(<<>>, to_dict(controls))
       IN  last' = Call("reimport", 0, FALSE, FALSE, FALSE, r.res, <<>>, fs, <<>>,
                        r.controls)
    /\ UNCHANGED <<fs, controls, batch>>

\* manager.validate(): out is the returned list
Validate ==
    /\ last' = Call("validate", 0, FALSE, FALSE, FALSE, "True", <<>>, fs, <<>>,
                    validate(controls, fs))
    /\ UNCHANGED <<fs, controls, batch>>

CfgFs ==
    {f \in AllFs : /\ f[WorkPath] = Absent
                   /\ f[SrvPath] \in {Absent, Dir({})}
                   /\ f[RepoPath] \in {Absent, Dir({"HEAD"})}}

Init ==
    /\ fs \in CfgFs
    /\ controls = <<>>
    /\ batch = IdleBatch
    /\ last = NoCall

Next ==
    \/ \E c \in CfgControls : appendControl(c)
    \/ \E c \in CfgControls : removeControl(c)
    \/ clearControls
    \/ \E data \in LoadInputs : LoadFromDict(data)
    \/ Reimport
    \/ Validate

\* A manager from its construction on: list edits, loads, exports, validation.
Spec == Init /\ [][Next]_vars

(***************************************************************************)
(* Claims on the manager's list (Spec)                                     *)
(***************************************************************************)
RequiredKeys == {"name", "repository_path", "target_path"}

LoadedItems == last.arg[1]["controls"].items

\* the record is a list of entries one of which lacks a required key
LacksRequiredKey ==
    /\ "controls" \in DOMAIN last.arg[1]
    /\ last.arg[1]["controls"].is_list
    /\ \E i \in DOMAIN LoadedItems : ~(RequiredKeys \subseteq DOMAIN LoadedItems[i])

\* C3: a load of a record one of whose entries lacks a required key raises and
\* leaves the manager's list exactly as it was before the call.
C3_LoadIsAllOrNothing ==
    (last.op = "load" /\ LacksRequiredKey)
    => (last.res = "raise" /\ controls = last.before)

\* C4: validate() on a list of two controls that share their clone_path, with
\* nothing else to report, returns exactly one duplicate-path message.
C4_OneDuplicateMessage ==
    (/\ last.op = "validate"
     /\ Len(controls) = 2
     /\ controls[1].clone_path = controls[2].clone_path
     /\ \A i \in DOMAIN controls : ParentMsgs(controls, i, fs) = <<>>)
    => last.out = <<ValidationMsg("duplicate", controls[1].clone_path)>>

NonEmptyFields(c) ==
    c.name # EmptyStr /\ c.repo_path # EmptyStr /\ c.clone_path # EmptyStr

\* C8: when every control of the manager has a non-empty name, repo_path and
\* clone_path, loading to_dict() into an empty manager succeeds and gives a
\* list of the same length with equal name, repo_path and clone_path at every
\* place, and the new manager's to_dict() equals the first one.
C8_RoundTrip ==
    (last.op = "reimport" /\ \A i \in DOMAIN controls : NonEmptyFields(controls[i]))
    => /\ last.res = "True"
       /\ Len(last.out) = Len(controls)
       /\ \A i \in DOMAIN controls :
            /\ last.out[i].name = controls[i].name
            /\ last.out[i].repo_path = controls[i].repo_path
            /\ last.out[i].clone_path = controls[i].clone_path
       /\ to_dict(last.out) = to_dict(controls)

C8_Witness ==
    /\ last.op = "reimport"
    /\ Len(controls) = 3
    /\ \A i \in DOMAIN controls : NonEmptyFields(controls[i])
    /\ controls[1].is_local /\ ~controls[2].is_local
    /\ controls[1].clone_path # controls[3].clone_path
    /\ last.res = "True"
    /\ last.out = controls

====
